---------------------------- MODULE Spec2Model ----------------------------
(***************************************************************************)
(* A model of mm.c: a boundary-tag allocator with 15 segregated free       *)
(* lists over a heap grown by mem_sbrk.                                    *)
(*                                                                         *)
(* Memory is a word-addressed image: mem maps the address of an 8-byte     *)
(* cell to the value it holds.  A cell that was never written holds the    *)
(* value fill (sbrk memory is uninitialised; fill is chosen at start).     *)
(* size_t, word_t and pointers are WordBits wide and all arithmetic on     *)
(* them is modulo 2^WordBits.  Every C function is an operator from a      *)
(* machine record m = [mem, seg, brk, hs, st] to a machine record (and a   *)
(* return value); st records a call that does not return: an access        *)
(* outside the heap ("fault_read", "fault_write") or an endless list walk  *)
(* ("hang").                                                               *)
(***************************************************************************)
EXTENDS Integers, Sequences, FiniteSets, TLC

\* ----------------------------------------------------------------- bounds
\* width of size_t / word_t / a pointer, in bits (64 in the build)
WordBits == 16
\* most pointers the caller holds at once
MaxLive == 2
\* capacity of the memlib heap, in chunks beyond the two sentinel words
MaxHeapChunks == 2
\* most public calls in one run
MaxCalls == 3

WordMod == 2^WordBits
SIZE_MAX == WordMod - 1
NULL == 0

\* -------------------------------------------------------------- constants
wsize == 8
dsize == 2 * wsize
min_block_size == 2 * dsize
chunksize == 4096
alloc_mask == 1
prev_alloc_mask == 2
list_length == 15

\* seg_list thresholds list0 .. list14
list_lo == <<32, 64, 96, 128, 160, 192, 256, 512, 1024, 2048, 4096, 8192,
             16384, 32768, 65536>>

\* first address of the memlib heap (16-byte aligned) and its capacity
mem_heap_lo == 16384
mem_max_addr == mem_heap_lo + 2 * wsize + MaxHeapChunks * chunksize

VARIABLES mem, seg_list, mem_brk, heap_start, status, fill, live, init_ok,
          ncalls

vars == <<mem, seg_list, mem_brk, heap_start, status, fill, live, init_ok,
          ncalls>>

\* the machine the C functions act on
M == [mem |-> mem, seg |-> seg_list, brk |-> mem_brk, hs |-> heap_start,
      st |-> status, iok |-> init_ok]

\* ------------------------------------------------------------- arithmetic
Wrap(x) == x % WordMod

\* (intptr_t)x: the value of a word read as a signed integer
Signed(x) == IF x >= WordMod \div 2 THEN x - WordMod ELSE x

max(x, y) == IF x > y THEN x ELSE y

round_up(size, n) ==
    LET asize == Wrap(n * (Wrap(size + (n - 1)) \div n))
    IN  IF asize < min_block_size THEN min_block_size ELSE asize

\* bit k (of weight w = 2^k) of a word
Bit(word, w) == (word \div w) % 2 = 1

\* word | mask, for a one-bit mask
OrBit(word, w) == IF Bit(word, w) THEN word ELSE word + w

pack(size, alloc, prev_alloc) ==
    LET word == size
    IN  IF alloc
        THEN IF prev_alloc
             THEN OrBit(OrBit(word, prev_alloc_mask), alloc_mask)
             ELSE OrBit(word, alloc_mask)
        ELSE IF prev_alloc THEN OrBit(word, prev_alloc_mask) ELSE word

\* word & ~0xF
extract_size(word) == word - (word % 16)
extract_alloc(word) == Bit(word, alloc_mask)
extract_prev_alloc(word) == Bit(word, prev_alloc_mask)

\* ------------------------------------------------------------------ memory
mem_heap_hi(m) == m.brk - 1

\* an 8-byte cell of the heap
InHeap(m, a) ==
    /\ a % wsize = 0
    /\ a >= mem_heap_lo
    /\ a + (wsize - 1) <= mem_heap_hi(m)

Load(m, a) == IF a \in DOMAIN m.mem THEN m.mem[a] ELSE fill

\* the call stops returning; a wild store is recorded over a wild load
Fault(m, kind) ==
    IF kind # "ok" /\ (m.st = "ok" \/ (m.st = "fault_read" /\ kind = "fault_write"))
    THEN [m EXCEPT !.st = kind]
    ELSE m

\* *a = v; a cell holding fill is not kept in mem
Store(m, a, v) ==
    IF ~InHeap(m, a) THEN Fault(m, "fault_write")
    ELSE IF v = fill
    THEN [m EXCEPT !.mem = [x \in (DOMAIN m.mem) \ {a} |-> m.mem[x]]]
    ELSE [m EXCEPT !.mem = (a :> v) @@ m.mem]

\* a read of cell a by the allocator: a fault when a is no cell of the heap
Touch(m, a) == IF InHeap(m, a) THEN m ELSE Fault(m, "fault_read")

\* ------------------------------------------------------------ block codec
get_size(m, block) == extract_size(Load(m, block))
get_alloc(m, block) == extract_alloc(Load(m, block))
get_prev_alloc(m, block) == extract_prev_alloc(Load(m, block))
get_payload_size(m, block) == Wrap(get_size(m, block) - wsize + WordMod)

payload_to_header(bp) == Wrap(bp - wsize + WordMod)
header_to_payload(block) == Wrap(block + wsize)
header_to_footer(m, block) ==
    Wrap(block + wsize + get_size(m, block) - dsize + WordMod)
footer_to_header(m, footer) ==
    Wrap(footer + wsize - extract_size(Load(m, footer)) + WordMod)
find_next(m, block) == Wrap(block + get_size(m, block))
find_prev_footer(block) == Wrap(block - wsize + WordMod)

\* field addresses of struct block
NextField(block) == Wrap(block + wsize)
PrevField(block) == Wrap(block + 2 * wsize)

write_epilogue(m, block) == Store(m, block, pack(0, TRUE, FALSE))

\* *footerp = word, when the header is written
write_footer(m, block, word) == Store(m, header_to_footer(m, block), word)

write_block(m, block, size, alloc, prev_alloc) ==
    IF alloc THEN Store(m, block, pack(size, alloc, prev_alloc))
    ELSE write_footer(Store(m, block, pack(size, alloc, prev_alloc)), block,
                      pack(size, alloc, prev_alloc))

\* write_block(block, size, alloc, get_prev_alloc(block))
write_block_keep(m, block, size, alloc) ==
    write_block(m, block, size, alloc, get_prev_alloc(m, block))

\* next_block->header = pack(size, alloc, next_prev_alloc)
set_prev_alloc(m, next_block, next_prev_alloc) ==
    Store(Touch(m, next_block), next_block,
          pack(get_size(m, next_block), get_alloc(m, next_block),
               next_prev_alloc))

update_next_prev_alloc(m, block, next_prev_alloc) ==
    set_prev_alloc(Touch(m, block), find_next(m, block), next_prev_alloc)

\* [m, ret]: ret is NULL when the word before block has size 0
find_prev(m, block) ==
    [m |-> Touch(m, find_prev_footer(block)),
     ret |-> IF extract_size(Load(m, find_prev_footer(block))) = 0 THEN NULL
             ELSE footer_to_header(m, find_prev_footer(block))]


\* ---------------------------------------------------------- segregated lists
RECURSIVE find_index_from(_, _)
\* the else-if ladder of find_index, from rung i on
find_index_from(size, i) ==
    IF i >= list_length - 1 THEN list_length - 1
    ELSE IF size >= list_lo[i + 1] /\ size < list_lo[i + 2] THEN i
    ELSE find_index_from(size, i + 1)

find_index(size) == find_index_from(size, 0)

SetHead(m, index, block) == [m EXCEPT !.seg[index] = block]

\* the four cases of remove_from_list, block_prev and block_next read
unlink(m, index, block_prev, block_next) ==
    IF block_prev = NULL /\ block_next = NULL
    THEN SetHead(m, index, NULL)
    ELSE IF block_prev # NULL /\ block_next = NULL
    THEN Store(m, NextField(block_prev), NULL)
    ELSE IF block_prev = NULL /\ block_next # NULL
    THEN Store(SetHead(m, index, block_next), PrevField(block_next), NULL)
    ELSE Store(Store(m, NextField(block_prev), block_next),
               PrevField(block_next), block_prev)

remove_from_list(m, block) ==
    unlink(Touch(Touch(Touch(m, block), NextField(block)), PrevField(block)),
           find_index(get_size(m, block)),
           Load(m, PrevField(block)), Load(m, NextField(block)))

\* the two cases of add_to_list, index computed
push(m, index, block) ==
    IF m.seg[index] = NULL
    THEN SetHead(Store(Store(m, NextField(block), NULL),
                       PrevField(block), NULL), index, block)
    ELSE SetHead(Store(Store(Store(m, PrevField(block), NULL),
                             NextField(block), m.seg[index]),
                       PrevField(m.seg[index]), block), index, block)

add_to_list(m, block) ==
    push(Touch(m, block), find_index(get_size(m, block)), block)

\* ------------------------------------------------------------------ coalesce
\* remove_from_list(find_next(block))
remove_next(m, block) == remove_from_list(m, find_next(m, block))

\* a coalesce_block whose case 2 leaves the next block in its list
coalesce_case_listed(m, block, prev, next) ==
    LET prev_alloc == IF prev = NULL THEN TRUE ELSE get_prev_alloc(m, block)
        next_alloc == get_alloc(m, next)
        size == get_size(m, block)
    IN  IF prev_alloc /\ next_alloc
        THEN [m |-> update_next_prev_alloc(m, block, FALSE), ret |-> block]
        ELSE IF prev_alloc /\ ~next_alloc
        THEN [m |-> update_next_prev_alloc(
                        write_block(m, block,
                                    Wrap(size + get_size(m, next)),
                                    FALSE, TRUE),
                        block, FALSE),
              ret |-> block]
        ELSE IF ~prev_alloc /\ next_alloc
        THEN [m |-> update_next_prev_alloc(
                        write_block_keep(
                            remove_from_list(Touch(m, prev), prev), prev,
                            Wrap(size + get_size(m, prev)), FALSE),
                        prev, FALSE),
              ret |-> prev]
        ELSE [m |-> update_next_prev_alloc(
                        write_block_keep(
                            remove_next(
                                remove_from_list(Touch(m, prev), prev),
                                block),
                            prev,
                            Wrap(size + Wrap(get_size(m, prev)
                                             + get_size(m, next))),
                            FALSE),
                        prev, FALSE),
              ret |-> prev]

\* cases 1 to 4 of coalesce_block and its last two lines: [m, ret]
coalesce_case(m, block, prev, next) ==
    LET prev_alloc == IF prev = NULL THEN TRUE ELSE get_prev_alloc(m, block)
        next_alloc == get_alloc(m, next)
        size == get_size(m, block)
    IN  IF prev_alloc /\ next_alloc
        THEN [m |-> update_next_prev_alloc(m, block, FALSE), ret |-> block]
        ELSE IF prev_alloc /\ ~next_alloc
        THEN [m |-> update_next_prev_alloc(
                        write_block(remove_from_list(m, next), block,
                                    Wrap(size + get_size(m, next)),
                                    FALSE, TRUE),
                        block, FALSE),
              ret |-> block]
        ELSE IF ~prev_alloc /\ next_alloc
        THEN [m |-> update_next_prev_alloc(
                        write_block_keep(
                            remove_from_list(Touch(m, prev), prev), prev,
                            Wrap(size + get_size(m, prev)), FALSE),
                        prev, FALSE),
              ret |-> prev]
        ELSE [m |-> update_next_prev_alloc(
                        write_block_keep(
                            remove_next(
                                remove_from_list(Touch(m, prev), prev),
                                block),
                            prev,
                            Wrap(size + Wrap(get_size(m, prev)
                                             + get_size(m, next))),
                            FALSE),
                        prev, FALSE),
              ret |-> prev]

\* coalesce_block after find_prev has returned fp
coalesce_from(fp, block) ==
    IF block = NULL
    THEN [m |-> update_next_prev_alloc(fp.m, block, FALSE), ret |-> block]
    ELSE coalesce_case(Touch(Touch(fp.m, block), find_next(fp.m, block)),
                       block, fp.ret, find_next(fp.m, block))

\* [m, ret]
coalesce_block(m, block) == coalesce_from(find_prev(m, block), block)

\* ----------------------------------------------------------------- mem_sbrk
\* [m, ret]: the old break, or (void *)-1 and no change.  ok is the answer
\* of the system to this request when the heap has room for it.
mem_sbrk(m, incr, ok) ==
    IF Signed(incr) < 0 \/ m.brk + incr > mem_max_addr \/ ~ok
    THEN [m |-> m, ret |-> SIZE_MAX]
    ELSE [m |-> [m EXCEPT !.brk = m.brk + incr], ret |-> m.brk]

\* --------------------------------------------------------------- extend_heap
\* add_to_list(block) on the block coalesce_block returned: [m, ret]
listed(co) == [m |-> add_to_list(co.m, co.ret), ret |-> co.ret]

\* write_epilogue(find_next(block))
write_epilogue_after(m, block) == write_epilogue(m, find_next(m, block))

\* extend_heap that rewrites the epilogue before it looks at what mem_sbrk
\* returned: [m, ret]
extend_at_eager(sb, m, size) ==
    IF sb.ret = SIZE_MAX
    THEN [m |-> write_epilogue(m, Wrap(m.brk - wsize)), ret |-> NULL]
    ELSE listed(coalesce_block(
                    write_epilogue_after(
                        write_block_keep(
                            Touch(sb.m, payload_to_header(sb.ret)),
                            payload_to_header(sb.ret), size, FALSE),
                        payload_to_header(sb.ret)),
                    payload_to_header(sb.ret)))

\* extend_heap that lists the new block without coalescing it: [m, ret]
extend_at_apart(sb, m, size) ==
    IF sb.ret = SIZE_MAX THEN [m |-> m, ret |-> NULL]
    ELSE listed([m |-> write_epilogue_after(
                           write_block_keep(
                               Touch(sb.m, payload_to_header(sb.ret)),
                               payload_to_header(sb.ret), size, FALSE),
                           payload_to_header(sb.ret)),
                 ret |-> payload_to_header(sb.ret)])

\* extend_heap after mem_sbrk has returned sb: [m, ret]
extend_at(sb, m, size) ==
    IF sb.ret = SIZE_MAX THEN [m |-> m, ret |-> NULL]
    ELSE listed(coalesce_block(
                    write_epilogue_after(
                        write_block_keep(
                            Touch(sb.m, payload_to_header(sb.ret)),
                            payload_to_header(sb.ret), size, FALSE),
                        payload_to_header(sb.ret)),
                    payload_to_header(sb.ret)))

\* [m, ret]
extend_heap(m, size0, ok) ==
    extend_at(mem_sbrk(m, round_up(size0, dsize), ok), m,
              round_up(size0, dsize))

\* --------------------------------------------------------------- split_block
\* the free rest of a split block is written and listed
split_rest(m, block_next, rest) ==
    add_to_list(write_block(m, block_next, rest, FALSE, TRUE), block_next)

split_tail(m, block, rest) == split_rest(m, find_next(m, block), rest)

\* a split_block that hands the whole block out whatever its size
split_never(m, block, asize) ==
    update_next_prev_alloc(
        write_block_keep(m, block, get_size(m, block), TRUE),
        block, TRUE)

\* split_block after remove_from_list(block)
split_removed(m, block, asize) ==
    IF Wrap(get_size(m, block) - asize + WordMod) >= min_block_size
    THEN split_tail(write_block_keep(m, block, asize, TRUE), block,
                    Wrap(get_size(m, block) - asize + WordMod))
    ELSE update_next_prev_alloc(
             write_block_keep(m, block, get_size(m, block), TRUE),
             block, TRUE)

split_block(m, block, asize) ==
    split_removed(remove_from_list(m, block), block, asize)

\* ------------------------------------------------------------------ find_fit
RECURSIVE fit_walk_own_class(_, _, _, _, _)
\* a search that gives up at the end of the list of find_index(asize)
fit_walk_own_class(m, asize, index, block, seen) ==
    IF index >= list_length THEN [st |-> "ok", ret |-> NULL]
    ELSE IF block = NULL THEN [st |-> "ok", ret |-> NULL]
    ELSE IF ~InHeap(m, block) THEN [st |-> "fault_read", ret |-> NULL]
    ELSE IF ~get_alloc(m, block) /\ asize <= get_size(m, block)
    THEN [st |-> "ok", ret |-> block]
    ELSE IF ~InHeap(m, NextField(block))
    THEN [st |-> "fault_read", ret |-> NULL]
    ELSE IF block \in seen THEN [st |-> "hang", ret |-> NULL]
    ELSE fit_walk_own_class(m, asize, index, Load(m, NextField(block)),
                            seen \cup {block})

RECURSIVE fit_walk_last(_, _, _, _, _)
\* a search that goes on along the list while the next block fits as well
fit_walk_last(m, asize, index, block, seen) ==
    IF index >= list_length THEN [st |-> "ok", ret |-> NULL]
    ELSE IF block = NULL
    THEN IF index + 1 < list_length
         THEN fit_walk_last(m, asize, index + 1, m.seg[index + 1], {})
         ELSE [st |-> "ok", ret |-> NULL]
    ELSE IF ~InHeap(m, block) THEN [st |-> "fault_read", ret |-> NULL]
    ELSE IF ~InHeap(m, NextField(block))
    THEN [st |-> "fault_read", ret |-> NULL]
    ELSE IF block \in seen THEN [st |-> "hang", ret |-> NULL]
    ELSE IF /\ ~get_alloc(m, block)
            /\ asize <= get_size(m, block)
            /\ \/ Load(m, NextField(block)) = NULL
               \/ ~InHeap(m, Load(m, NextField(block)))
               \/ get_alloc(m, Load(m, NextField(block)))
               \/ asize > get_size(m, Load(m, NextField(block)))
    THEN [st |-> "ok", ret |-> block]
    ELSE fit_walk_last(m, asize, index, Load(m, NextField(block)),
                       seen \cup {block})

RECURSIVE fit_walk(_, _, _, _, _)
\* the for/while nest of find_fit at (index, block); [st, ret].  seen holds
\* the blocks of this list the walk has passed: meeting one again, with the
\* heap unchanged, the walk never ends
fit_walk(m, asize, index, block, seen) ==
    IF index >= list_length THEN [st |-> "ok", ret |-> NULL]
    ELSE IF block = NULL
    THEN IF index + 1 < list_length
         THEN fit_walk(m, asize, index + 1, m.seg[index + 1], {})
         ELSE [st |-> "ok", ret |-> NULL]
    ELSE IF ~InHeap(m, block) THEN [st |-> "fault_read", ret |-> NULL]
    ELSE IF ~get_alloc(m, block) /\ asize <= get_size(m, block)
    THEN [st |-> "ok", ret |-> block]
    ELSE IF ~InHeap(m, NextField(block))
    THEN [st |-> "fault_read", ret |-> NULL]
    ELSE IF block \in seen THEN [st |-> "hang", ret |-> NULL]
    ELSE fit_walk(m, asize, index, Load(m, NextField(block)),
                  seen \cup {block})

\* the result r of the search, as [m, ret]
fit_result(m, r) == [m |-> Fault(m, r.st), ret |-> r.ret]

\* [m, ret]
find_fit(m, asize) ==
    fit_result(m, fit_walk(m, asize, find_index(asize),
                           m.seg[find_index(asize)], {}))


\* ------------------------------------------------------------ memcpy, memset
\* the low r bytes of a cell (little endian)
LowBytes(v, r) == IF 8 * r >= WordBits THEN v ELSE v % (2^(8 * r))

\* a cell of dst after the low r bytes of src are copied into it
MergeBytes(dstv, srcv, r) == LowBytes(srcv, r) + (dstv - LowBytes(dstv, r))

\* the cells [a, a + n) touches
CellsOf(a, n) == {a + wsize * i : i \in 0 .. ((n + wsize - 1) \div wsize) - 1}

RangeInHeap(m, a, n) ==
    n = 0 \/ (InHeap(m, a) /\ a + n - 1 <= mem_heap_hi(m))

\* every cell of [dst, dst + n) takes the bytes of src as they were before
CopyAtOnce(m, dst, src, n) ==
    LET D == CellsOf(dst, n)
        lastc == dst + wsize * (n \div wsize)
        val(d) == IF d = lastc
                  THEN MergeBytes(Load(m, d), Load(m, src + (d - dst)),
                                  n % wsize)
                  ELSE Load(m, src + (d - dst))
        keep == ((DOMAIN m.mem) \ D) \cup {d \in D : val(d) # fill}
    IN  [m EXCEPT !.mem = [a \in keep |->
                              IF a \in D THEN val(a) ELSE m.mem[a]]]

Overlap(dst, src, n) == n > 0 /\ dst < src + n /\ src < dst + n

\* a copy of overlapping ranges that runs cell by cell towards the source,
\* so that each read sees the cells written before it: cell k of dst takes
\* the original cell of src that the chain of copies ends in
CopySmear(m, dst, src, n) ==
    LET D == CellsOf(dst, n)
        K == Cardinality(D)
        lastc == dst + wsize * (n \div wsize)
        from(k) ==
            IF dst > src
            THEN LET dc == (dst - src) \div wsize IN k % dc
            ELSE LET dc == (src - dst) \div wsize
                 IN  k + dc * ((K - 1 - k) \div dc)
        val(d) == LET sv == Load(m, src + wsize * from((d - dst) \div wsize))
                  IN  IF d = lastc THEN MergeBytes(Load(m, d), sv, n % wsize)
                      ELSE sv
        keep == ((DOMAIN m.mem) \ D) \cup {d \in D : val(d) # fill}
    IN  [m EXCEPT !.mem = [a \in keep |->
                              IF a \in D THEN val(a) ELSE m.mem[a]]]

\* memcpy(dst, src, n); on overlapping ranges the result is one of the two
\* copies above, as smear says
memcpy(m, dst, src, n, smear) ==
    IF ~RangeInHeap(m, src, n) THEN Fault(m, "fault_read")
    ELSE IF ~RangeInHeap(m, dst, n) THEN Fault(m, "fault_write")
    ELSE IF Overlap(dst, src, n) /\ dst # src /\ smear
    THEN CopySmear(m, dst, src, n)
    ELSE CopyAtOnce(m, dst, src, n)

\* memset(bp, 0, n)
memset0(m, bp, n) ==
    IF ~RangeInHeap(m, bp, n) THEN Fault(m, "fault_write")
    ELSE LET D == CellsOf(bp, n)
             lastc == bp + wsize * (n \div wsize)
             val(d) == IF d = lastc
                       THEN MergeBytes(Load(m, d), 0, n % wsize)
                       ELSE 0
             keep == ((DOMAIN m.mem) \ D) \cup {d \in D : val(d) # fill}
         IN  [m EXCEPT !.mem = [a \in keep |->
                                   IF a \in D THEN val(a) ELSE m.mem[a]]]

\* ------------------------------------------------------------- the public API
\* the answers of the system to the sbrk requests of one call: the two of
\* mm_init, then the one of malloc's extend_heap
AllOracles == [1 .. 3 -> BOOLEAN]

\* the prologue and epilogue words, heap_start and the empty lists
init_heap(m, start) ==
    [Store(Store(m, start, pack(0, TRUE, TRUE)),
           start + wsize, pack(0, TRUE, TRUE))
        EXCEPT !.hs = start + wsize,
               !.seg = [i \in 0 .. list_length - 1 |-> NULL]]

\* the return of mm_init after extend_heap(chunksize) has returned ext;
\* iok records that mm_init has returned true
init_result(ext) ==
    [m |-> IF ext.ret # NULL THEN [ext.m EXCEPT !.iok = TRUE] ELSE ext.m,
     ret |-> ext.ret # NULL]

\* mm_init after mem_sbrk has returned sb
init_at(sb, m, ok2) ==
    IF sb.ret = SIZE_MAX THEN [m |-> m, ret |-> FALSE]
    ELSE init_result(extend_heap(init_heap(sb.m, sb.ret), chunksize, ok2))

\* [m, ret]
mm_init(m, ok1, ok2) == init_at(mem_sbrk(m, 2 * wsize, ok1), m, ok2)

\* split_block(block, asize); bp = header_to_payload(block)
malloc_place(m, block, asize) ==
    [m |-> split_block(m, block, asize), ret |-> header_to_payload(block)]

\* malloc after extend_heap has returned ext
malloc_extended(ext, asize) ==
    IF ext.ret = NULL THEN [m |-> ext.m, ret |-> NULL]
    ELSE malloc_place(ext.m, ext.ret, asize)

\* malloc after find_fit has returned ff
malloc_fit(ff, asize, ok) ==
    IF ff.ret # NULL THEN malloc_place(ff.m, ff.ret, asize)
    ELSE malloc_extended(extend_heap(ff.m, max(asize, chunksize), ok), asize)

\* malloc after the heap is initialised, or was tried to
malloc_init(m, size, ok) ==
    IF size = 0 THEN [m |-> m, ret |-> NULL]
    ELSE malloc_fit(find_fit(m, round_up(Wrap(size + wsize), dsize)),
                    round_up(Wrap(size + wsize), dsize), ok)

\* [m, ret]
malloc(m, size, oks) ==
    malloc_init(IF m.hs = NULL THEN mm_init(m, oks[1], oks[2]).m ELSE m,
                size, oks[3])

\* the arguments of the mem_sbrk calls malloc(size) makes, in machine m with
\* answers oks: the two of a lazy mm_init (the second when the first was
\* granted), and the one of extend_heap when find_fit returns NULL
init_requests(m, oks) ==
    IF m.hs # NULL THEN {}
    ELSE IF mem_sbrk(m, 2 * wsize, oks[1]).ret = SIZE_MAX THEN {2 * wsize}
    ELSE {2 * wsize, round_up(chunksize, dsize)}

extend_requests(ff, asize) ==
    IF ff.m.st = "ok" /\ ff.ret = NULL
    THEN {round_up(max(asize, chunksize), dsize)}
    ELSE {}

malloc_requests(m, size, oks) ==
    init_requests(m, oks) \cup
        IF size = 0 THEN {}
        ELSE extend_requests(
                 find_fit(IF m.hs = NULL THEN mm_init(m, oks[1], oks[2]).m
                          ELSE m,
                          round_up(Wrap(size + wsize), dsize)),
                 round_up(Wrap(size + wsize), dsize))

\* the free block malloc(size) is about to hand to split_block, and the
\* machine at that point: [m, ret], ret NULL when there is none
malloc_chosen(ff, asize, ok) ==
    IF ff.ret # NULL THEN ff
    ELSE extend_heap(ff.m, max(asize, chunksize), ok)

malloc_choice(m, size, oks) ==
    IF size = 0 THEN [m |-> m, ret |-> NULL]
    ELSE malloc_chosen(
             find_fit(IF m.hs = NULL THEN mm_init(m, oks[1], oks[2]).m
                      ELSE m,
                      round_up(Wrap(size + wsize), dsize)),
             round_up(Wrap(size + wsize), dsize), oks[3])

\* add_to_list(coalesce_block(block))
add_coalesced(co) == add_to_list(co.m, co.ret)

\* free of a non-null pointer, at its block
free_block(m, block) ==
    add_coalesced(
        coalesce_block(
            update_next_prev_alloc(
                write_block_keep(m, block, get_size(m, block), FALSE),
                block, FALSE),
            block))

free(m, bp) ==
    IF bp = NULL THEN m
    ELSE free_block(Touch(m, payload_to_header(bp)), payload_to_header(bp))

\* copysize = min(size, get_payload_size(block)); memcpy(newptr, ptr, copysize)
realloc_copy(m, newptr, ptr, size, smear) ==
    memcpy(m, newptr, ptr,
           IF size < get_payload_size(m, payload_to_header(ptr)) THEN size
           ELSE get_payload_size(m, payload_to_header(ptr)),
           smear)

\* realloc of size > 0 that gives the old block up when malloc returned NULL
realloc_into_freeing(mal, ptr, size, smear) ==
    IF ptr = NULL THEN mal
    ELSE IF mal.ret = NULL THEN [m |-> free(mal.m, ptr), ret |-> NULL]
    ELSE [m |-> free(realloc_copy(Touch(mal.m, payload_to_header(ptr)),
                                  mal.ret, ptr, size, smear), ptr),
          ret |-> mal.ret]

\* realloc of size > 0 without the test ptr == NULL
realloc_into_copying(mal, ptr, size, smear) ==
    IF mal.ret = NULL THEN [m |-> mal.m, ret |-> NULL]
    ELSE [m |-> free(realloc_copy(Touch(mal.m, payload_to_header(ptr)),
                                  mal.ret, ptr, size, smear), ptr),
          ret |-> mal.ret]

\* realloc of size > 0 after malloc(size) has returned mal
realloc_into(mal, ptr, size, smear) ==
    IF ptr = NULL THEN mal
    ELSE IF mal.ret = NULL THEN [m |-> mal.m, ret |-> NULL]
    ELSE [m |-> free(realloc_copy(Touch(mal.m, payload_to_header(ptr)),
                                  mal.ret, ptr, size, smear), ptr),
          ret |-> mal.ret]

\* [m, ret]
realloc(m, ptr, size, oks, smear) ==
    IF size = 0 THEN [m |-> free(m, ptr), ret |-> NULL]
    ELSE realloc_into(malloc(m, size, oks), ptr, size, smear)

\* elements * size modulo 2^WordBits
MulWrap(a, b) ==
    Wrap(Wrap((a \div 256) * b) * 256 + (a % 256) * b)

\* calloc after malloc(asize) has returned mal
calloc_zero(mal, asize) ==
    IF mal.ret = NULL THEN [m |-> mal.m, ret |-> NULL]
    ELSE [m |-> memset0(mal.m, mal.ret, asize), ret |-> mal.ret]

\* calloc without the test asize / elements != size: [m, ret]
calloc_unchecked(m, elements, size, oks) ==
    IF elements = 0 THEN [m |-> m, ret |-> NULL]
    ELSE calloc_zero(malloc(m, MulWrap(elements, size), oks),
                     MulWrap(elements, size))

\* [m, ret]
calloc(m, elements, size, oks) ==
    IF elements = 0 THEN [m |-> m, ret |-> NULL]
    ELSE IF MulWrap(elements, size) \div elements # size
    THEN [m |-> m, ret |-> NULL]
    ELSE calloc_zero(malloc(m, MulWrap(elements, size), oks),
                     MulWrap(elements, size))


\* ------------------------------------------------------------- mm_checkheap
\* A check_* function is TRUE when the C function returns true; a loop of it
\* that leaves the heap or never ends returns nothing, which is not TRUE.

RECURSIVE heap_walk(_, _, _)
\* for (block = start; get_size(block) > 0; block = find_next(block)):
\* [ok, blocks, end], ok when the loop ends at a word of size 0 in the heap
heap_walk(m, block, acc) ==
    IF ~InHeap(m, block) THEN [ok |-> FALSE, blocks |-> acc, end |-> block]
    ELSE IF get_size(m, block) = 0
    THEN [ok |-> TRUE, blocks |-> acc, end |-> block]
    ELSE heap_walk(m, find_next(m, block), Append(acc, block))

HeapBlocks(m) == heap_walk(m, m.hs, <<>>)

RECURSIVE list_walk(_, _, _)
\* for (block = head; block != NULL; block = block->next): [ok, nodes]
list_walk(m, block, acc) ==
    IF block = NULL THEN [ok |-> TRUE, nodes |-> acc]
    ELSE IF ~InHeap(m, NextField(block))
            \/ block \in {acc[i] : i \in 1 .. Len(acc)}
    THEN [ok |-> FALSE, nodes |-> acc]
    ELSE list_walk(m, Load(m, NextField(block)), Append(acc, block))

ListNodes(m, index) == list_walk(m, m.seg[index], <<>>)

SeqSet(q) == {q[i] : i \in 1 .. Len(q)}

check_payload_align(m) ==
    LET w == HeapBlocks(m)
    IN  /\ w.ok
        /\ \A b \in SeqSet(w.blocks) :
               get_alloc(m, b) => header_to_payload(b) % 16 = 0

RECURSIVE floyd(_, _, _, _)
\* the while loop of check_acyclic; fuel bounds the rounds of the chase
floyd(m, turtle, rabbit, fuel) ==
    IF turtle = rabbit THEN FALSE
    ELSE IF rabbit = NULL THEN TRUE
    ELSE IF ~InHeap(m, NextField(rabbit)) THEN FALSE
    ELSE IF Load(m, NextField(rabbit)) = NULL THEN TRUE
    ELSE IF ~InHeap(m, NextField(turtle))
            \/ ~InHeap(m, NextField(Load(m, NextField(rabbit))))
            \/ fuel = 0
    THEN FALSE
    ELSE floyd(m, Load(m, NextField(turtle)),
               Load(m, NextField(Load(m, NextField(rabbit)))), fuel - 1)

check_acyclic(m, free_list) ==
    IF free_list = NULL THEN TRUE
    ELSE IF ~InHeap(m, NextField(free_list)) THEN FALSE
    ELSE floyd(m, free_list, Load(m, NextField(free_list)),
               (m.brk - mem_heap_lo) \div min_block_size + 1)

check_no_block_loss(m) ==
    LET w == HeapBlocks(m)
        lists == [i \in 0 .. list_length - 1 |-> ListNodes(m, i)]
        RECURSIVE total(_)
        total(i) == IF i >= list_length THEN 0
                    ELSE Len(lists[i].nodes) + total(i + 1)
        res == Cardinality({b \in SeqSet(w.blocks) : ~get_alloc(m, b)})
    IN  /\ w.ok
        /\ \A i \in 0 .. list_length - 1 : lists[i].ok
        /\ total(0) = res

check_no_consecutive_free_blocks(m) ==
    LET w == HeapBlocks(m)
    IN  /\ w.ok
        /\ \A b \in SeqSet(w.blocks) :
               LET next == find_next(m, b)
               IN  get_size(m, next) > 0 =>
                       ~(~get_alloc(m, b) /\ ~get_alloc(m, next))

check_epi_prologue(m) ==
    LET epilogue == mem_heap_hi(m) - 7
        prologue == mem_heap_lo
    IN  /\ InHeap(m, epilogue) /\ InHeap(m, prologue)
        /\ get_alloc(m, epilogue) /\ get_size(m, epilogue) = 0
        /\ get_alloc(m, prologue) /\ get_size(m, prologue) = 0

check_range(m) ==
    LET w == HeapBlocks(m)
    IN  /\ w.ok
        /\ \A b \in SeqSet(w.blocks) :
               ~(b <= mem_heap_lo \/ b >= mem_heap_hi(m) - 7)

check_free_list_consistent(m) ==
    \A i \in 0 .. list_length - 1 :
        LET l == ListNodes(m, i)
        IN  /\ l.ok
            /\ \A b \in SeqSet(l.nodes) :
                   LET nx == Load(m, NextField(b))
                   IN  nx # NULL =>
                           /\ InHeap(m, PrevField(nx))
                           /\ Load(m, PrevField(nx)) = b

check_free_list_size_range(m) ==
    \A i \in 0 .. list_length - 1 :
        LET l == ListNodes(m, i)
            lo == list_lo[i + 1]
            hi == IF i = list_length - 1 THEN SIZE_MAX ELSE list_lo[i + 2]
        IN  /\ l.ok
            /\ \A b \in SeqSet(l.nodes) :
                   /\ InHeap(m, b)
                   /\ ~(get_size(m, b) < lo \/ get_size(m, b) >= hi)

PointerInRange(m, ptr) ==
    ~(Signed(ptr) <= mem_heap_lo \/ Signed(ptr) >= mem_heap_hi(m) - 7)

check_free_list_pointer_range(m) ==
    \A i \in 0 .. list_length - 1 :
        LET l == ListNodes(m, i)
        IN  /\ l.ok
            /\ \A b \in SeqSet(l.nodes) :
                   LET pv == Load(m, PrevField(b))
                       nx == Load(m, NextField(b))
                   IN  /\ InHeap(m, PrevField(b))
                       /\ pv # NULL => PointerInRange(m, pv)
                       /\ nx # NULL => PointerInRange(m, nx)

check_curr_next_consistency(m) ==
    LET w == HeapBlocks(m)
    IN  /\ w.ok
        /\ \A b \in SeqSet(w.blocks) :
               LET next == find_next(m, b)
               IN  get_size(m, next) > 0 =>
                       get_prev_alloc(m, next) = get_alloc(m, b)

check_header_footer_consistency(m) ==
    LET w == HeapBlocks(m)
    IN  /\ w.ok
        /\ \A b \in SeqSet(w.blocks) :
               ~get_alloc(m, b) =>
                   Load(m, b) = Load(m, header_to_footer(m, b))

mm_checkheap(m) ==
    /\ check_payload_align(m)
    /\ \A index \in 0 .. list_length - 1 : check_acyclic(m, m.seg[index])
    /\ check_epi_prologue(m)
    /\ check_range(m)
    /\ check_free_list_consistent(m)
    /\ check_free_list_size_range(m)
    /\ check_free_list_pointer_range(m)
    /\ check_header_footer_consistency(m)
    /\ check_curr_next_consistency(m)
    /\ check_no_consecutive_free_blocks(m)
    /\ check_no_block_loss(m)

\* --------------------------------------------------- a run of mm_checkheap
\* The outcome of a check_* function: "true" or "false" when it returns,
\* "fault_read" when it reads outside the heap first, "hang" when its loop
\* over a cyclic list never ends.  The functions hold no store.

\* a loop that meets, at its rounds 1, 2, ... a read outside the heap (round in
\* wild) or a failed test (round in fails) ends at the first of them; when it
\* meets neither it ends as tail says
first_event(wild, fails, tail) ==
    IF wild \cup fails = {} THEN tail
    ELSE IF (CHOOSE k \in wild \cup fails :
                 \A j \in wild \cup fails : k <= j) \in wild
    THEN "fault_read"
    ELSE "false"

\* the end of the loop over the blocks w = HeapBlocks(m): the read of the
\* header that stops it
walk_tail(w) == IF w.ok THEN "true" ELSE "fault_read"

Rounds(q) == 1 .. Len(q)

payload_align_on(m, w) ==
    first_event({},
                {k \in Rounds(w.blocks) :
                    /\ get_alloc(m, w.blocks[k])
                    /\ header_to_payload(w.blocks[k]) % 16 # 0},
                walk_tail(w))

check_payload_align_outcome(m) == payload_align_on(m, HeapBlocks(m))

RECURSIVE floyd_outcome(_, _, _, _)
floyd_outcome(m, turtle, rabbit, fuel) ==
    IF turtle = rabbit THEN "false"
    ELSE IF rabbit = NULL THEN "true"
    ELSE IF ~InHeap(m, NextField(rabbit)) THEN "fault_read"
    ELSE IF Load(m, NextField(rabbit)) = NULL THEN "true"
    ELSE IF ~InHeap(m, NextField(turtle))
            \/ ~InHeap(m, NextField(Load(m, NextField(rabbit))))
    THEN "fault_read"
    ELSE IF fuel = 0 THEN "false"
    ELSE floyd_outcome(m, Load(m, NextField(turtle)),
                       Load(m, NextField(Load(m, NextField(rabbit)))),
                       fuel - 1)

check_acyclic_outcome(m, free_list) ==
    IF free_list = NULL THEN "true"
    ELSE IF ~InHeap(m, NextField(free_list)) THEN "fault_read"
    ELSE floyd_outcome(m, free_list, Load(m, NextField(free_list)),
                       (m.brk - mem_heap_lo) \div min_block_size + 1)

\* the outcome of a loop over index = 0 .. 14 whose round index ends as
\* f[index] says, "pass" standing for a round that goes on to the next
first_list(f) ==
    IF \A i \in 0 .. list_length - 1 : f[i] = "pass" THEN "true"
    ELSE f[CHOOSE i \in 0 .. list_length - 1 :
               f[i] # "pass" /\ \A j \in 0 .. i - 1 : f[j] = "pass"]

\* mm_checkheap's loop over check_acyclic(seg_list[index]): every call of it
\* that returns is a round that goes on
acyclic_all_outcome(m) ==
    first_list([i \in 0 .. list_length - 1 |->
                   IF check_acyclic_outcome(m, m.seg[i]) \in {"true", "false"}
                   THEN "pass"
                   ELSE check_acyclic_outcome(m, m.seg[i])])

check_epi_prologue_outcome(m) ==
    IF ~InHeap(m, mem_heap_hi(m) - 7) \/ ~InHeap(m, mem_heap_lo)
    THEN "fault_read"
    ELSE IF check_epi_prologue(m) THEN "true" ELSE "false"

range_on(m, w) ==
    first_event({},
                {k \in Rounds(w.blocks) :
                    \/ w.blocks[k] <= mem_heap_lo
                    \/ w.blocks[k] >= mem_heap_hi(m) - 7},
                walk_tail(w))

check_range_outcome(m) == range_on(m, HeapBlocks(m))

\* the block the walk of list index stops at: NULL, a block whose next field
\* is outside the heap, or a block the walk has passed already
list_end(m, index, l) ==
    IF l.nodes = <<>> THEN m.seg[index]
    ELSE Load(m, NextField(l.nodes[Len(l.nodes)]))

\* a list loop after the nodes of l, whose round at a block with a next field
\* outside the heap ends as at_wild says
list_tail(m, index, l, at_wild) ==
    IF list_end(m, index, l) = NULL THEN "pass"
    ELSE IF list_end(m, index, l) \in SeqSet(l.nodes) THEN "hang"
    ELSE at_wild

consistent_list(m, index, l) ==
    first_event({k \in Rounds(l.nodes) :
                    /\ Load(m, NextField(l.nodes[k])) # NULL
                    /\ ~InHeap(m, PrevField(Load(m, NextField(l.nodes[k]))))},
                {k \in Rounds(l.nodes) :
                    /\ Load(m, NextField(l.nodes[k])) # NULL
                    /\ Load(m, PrevField(Load(m, NextField(l.nodes[k]))))
                           # l.nodes[k]},
                list_tail(m, index, l, "fault_read"))

check_free_list_consistent_outcome(m) ==
    first_list([i \in 0 .. list_length - 1 |->
                   consistent_list(m, i, ListNodes(m, i))])

\* size < lo || size >= hi for a block of list index
OutOfClass(m, index, block) ==
    \/ get_size(m, block) < list_lo[index + 1]
    \/ get_size(m, block) >=
           (IF index = list_length - 1 THEN SIZE_MAX ELSE list_lo[index + 2])

size_range_list(m, index, l) ==
    first_event({k \in Rounds(l.nodes) : ~InHeap(m, l.nodes[k])},
                {k \in Rounds(l.nodes) : OutOfClass(m, index, l.nodes[k])},
                list_tail(m, index, l,
                          IF InHeap(m, list_end(m, index, l))
                             /\ OutOfClass(m, index, list_end(m, index, l))
                          THEN "false" ELSE "fault_read"))

check_free_list_size_range_outcome(m) ==
    first_list([i \in 0 .. list_length - 1 |->
                   size_range_list(m, i, ListNodes(m, i))])

\* the test of check_free_list_pointer_range on block->prev
PrevOutOfRange(m, block) ==
    /\ Load(m, PrevField(block)) # NULL
    /\ ~PointerInRange(m, Load(m, PrevField(block)))

NextOutOfRange(m, block) ==
    /\ Load(m, NextField(block)) # NULL
    /\ ~PointerInRange(m, Load(m, NextField(block)))

pointer_range_list(m, index, l) ==
    first_event({k \in Rounds(l.nodes) : ~InHeap(m, PrevField(l.nodes[k]))},
                {k \in Rounds(l.nodes) :
                    \/ PrevOutOfRange(m, l.nodes[k])
                    \/ NextOutOfRange(m, l.nodes[k])},
                list_tail(m, index, l,
                          IF InHeap(m, PrevField(list_end(m, index, l)))
                             /\ PrevOutOfRange(m, list_end(m, index, l))
                          THEN "false" ELSE "fault_read"))

check_free_list_pointer_range_outcome(m) ==
    first_list([i \in 0 .. list_length - 1 |->
                   pointer_range_list(m, i, ListNodes(m, i))])

header_footer_on(m, w) ==
    first_event({k \in Rounds(w.blocks) :
                    /\ ~get_alloc(m, w.blocks[k])
                    /\ ~InHeap(m, header_to_footer(m, w.blocks[k]))},
                {k \in Rounds(w.blocks) :
                    /\ ~get_alloc(m, w.blocks[k])
                    /\ Load(m, w.blocks[k]) #
                           Load(m, header_to_footer(m, w.blocks[k]))},
                walk_tail(w))

check_header_footer_consistency_outcome(m) ==
    header_footer_on(m, HeapBlocks(m))

\* the rounds of a loop over the blocks in which find_next(block) is read
\* outside the heap
NextWild(m, w) ==
    {k \in Rounds(w.blocks) : ~InHeap(m, find_next(m, w.blocks[k]))}

curr_next_on(m, w) ==
    first_event(NextWild(m, w),
                {k \in Rounds(w.blocks) :
                    /\ get_size(m, find_next(m, w.blocks[k])) > 0
                    /\ get_prev_alloc(m, find_next(m, w.blocks[k]))
                           # get_alloc(m, w.blocks[k])},
                walk_tail(w))

check_curr_next_consistency_outcome(m) == curr_next_on(m, HeapBlocks(m))

no_consecutive_on(m, w) ==
    first_event(NextWild(m, w),
                {k \in Rounds(w.blocks) :
                    /\ get_size(m, find_next(m, w.blocks[k])) > 0
                    /\ ~get_alloc(m, w.blocks[k])
                    /\ ~get_alloc(m, find_next(m, w.blocks[k]))},
                walk_tail(w))

check_no_consecutive_free_blocks_outcome(m) ==
    no_consecutive_on(m, HeapBlocks(m))

\* check_no_block_loss after its loop over the lists has ended as lists says
block_loss_after(m, lists) ==
    IF lists # "true" THEN lists
    ELSE IF ~HeapBlocks(m).ok THEN "fault_read"
    ELSE IF check_no_block_loss(m) THEN "true" ELSE "false"

check_no_block_loss_outcome(m) ==
    block_loss_after(m,
        first_list([i \in 0 .. list_length - 1 |->
                       list_tail(m, i, ListNodes(m, i), "fault_read")]))

\* the machine after a check_* function has ended as outcome says
after(m, outcome) ==
    IF outcome \in {"true", "false"} THEN m ELSE Fault(m, outcome)

\* a check_no_block_loss that empties the lists when the counts differ
check_no_block_loss_clearing(m, m0) ==
    IF check_no_block_loss_outcome(m0) = "false"
    THEN [m EXCEPT !.seg = [i \in 0 .. list_length - 1 |-> NULL]]
    ELSE after(m, check_no_block_loss_outcome(m0))

\* the machine after check_no_block_loss(), run on the heap of m0
check_no_block_loss_call(m, m0) == after(m, check_no_block_loss_outcome(m0))

\* the machine after mm_checkheap(line), m0 being the machine it started in:
\* the eleven checks in the order of the calls; a check that does not return
\* ends the run
checkheap_from(m0, m) ==
    check_no_block_loss_call(
        after(after(after(after(after(after(after(after(after(after(m,
            check_payload_align_outcome(m0)),
            acyclic_all_outcome(m0)),
            check_epi_prologue_outcome(m0)),
            check_range_outcome(m0)),
            check_free_list_consistent_outcome(m0)),
            check_free_list_size_range_outcome(m0)),
            check_free_list_pointer_range_outcome(m0)),
            check_header_footer_consistency_outcome(m0)),
            check_curr_next_consistency_outcome(m0)),
            check_no_consecutive_free_blocks_outcome(m0)),
        m0)

\* [m, ret]
mm_checkheap_call(m) == [m |-> checkheap_from(m, m), ret |-> mm_checkheap(m)]

\* ------------------------------------------------------------ the state machine
\* values an uninitialised cell may hold: zero, or the header of a free block
FillWords == {0, pack(chunksize \div 4, FALSE, TRUE)}

\* request sizes: a quarter of a chunk, a whole chunk, half the address
\* space, and the largest size_t
MallocSizes == {1000, chunksize - 24, WordMod \div 2, SIZE_MAX}

ReallocSizes == {0, 1000, 2040, SIZE_MAX}

\* <<elements, size>> of calloc
CallocArgs == {<<0, 8>>, <<2, 500>>, <<SIZE_MAX, 2>>, <<WordMod \div 2, 2>>,
               <<3, WordMod \div 2>>, <<1, SIZE_MAX>>}

NoLive == [p \in {} |-> 0]

Init ==
    /\ mem = [a \in {} |-> 0]
    /\ seg_list = [i \in 0 .. list_length - 1 |-> NULL]
    /\ mem_brk = mem_heap_lo
    /\ heap_start = NULL
    /\ status = "ok"
    /\ fill \in FillWords
    /\ live = NoLive
    /\ init_ok = FALSE
    /\ ncalls = 0

\* the caller's pointers after p is given up and q (of n bytes) is obtained
Forget(lv, p) == [x \in (DOMAIN lv) \ {p} |-> lv[x]]
Obtain(lv, q, n) == IF q = NULL THEN lv ELSE (q :> n) @@ lv

\* a call returns with machine m, or never returns and the program is over
Return(m, lv) ==
    /\ ncalls < MaxCalls
    /\ ncalls' = ncalls + 1
    /\ IF m.st = "ok"
       THEN /\ mem' = m.mem
            /\ seg_list' = m.seg
            /\ mem_brk' = m.brk
            /\ heap_start' = m.hs
            /\ init_ok' = m.iok
            /\ live' = lv
            /\ UNCHANGED <<status, fill>>
       ELSE /\ status' = m.st
            /\ UNCHANGED <<mem, seg_list, mem_brk, heap_start, fill, live,
                           init_ok>>

Room == Cardinality(DOMAIN live) < MaxLive

\* the oracles that differ in an answer the next call can ask for: on an
\* initialised heap mm_init is not run
Oracle ==
    IF heap_start = NULL THEN AllOracles
    ELSE {o \in AllOracles : o[1] /\ o[2]}

\* a copy can only smear when the request size wraps in malloc, so that the
\* new block is smaller than the bytes copied into it
Smears(n) == IF Wrap(n + wsize + (dsize - 1)) < n THEN BOOLEAN ELSE {FALSE}

\* the driver sets the heap up once
MmInit(oks) ==
    /\ status = "ok"
    /\ heap_start = NULL
    /\ Return(mm_init(M, oks[1], oks[2]).m, live)

\* malloc(n) has returned r
MallocReturns(r, n) == Return(r.m, Obtain(live, r.ret, n))

Malloc(n, oks) ==
    /\ status = "ok"
    /\ Room
    /\ MallocReturns(malloc(M, n, oks), n)

Free(p) ==
    /\ status = "ok"
    /\ Return(free(M, p), Forget(live, p))

\* realloc(p, n) has returned r
ReallocReturns(r, p, n) ==
    Return(r.m, IF n = 0 THEN Forget(live, p)
                ELSE IF r.ret = NULL THEN live
                ELSE Obtain(Forget(live, p), r.ret, n))

Realloc(p, n, oks, smear) ==
    /\ status = "ok"
    /\ p = NULL => Room
    /\ ReallocReturns(realloc(M, p, n, oks, smear), p, n)

\* the caller stores a record into a buffer it holds, inside the block that
\* was handed out: word 2 looks like the header of a free block of half a
\* chunk, word 4 points at word 2
UserRecord(p) ==
    <<pack(chunksize \div 2, FALSE, TRUE), Wrap(p + 2 * wsize)>>

UserWrite(p) ==
    /\ status = "ok"
    /\ p \in DOMAIN live
    /\ live[p] >= 5 * wsize
    /\ get_payload_size(M, payload_to_header(p)) >= 5 * wsize
    /\ Return(Store(Store(M, Wrap(p + 2 * wsize), UserRecord(p)[1]),
                    Wrap(p + 4 * wsize), UserRecord(p)[2]),
              live)

\* calloc(c[1], c[2]) has returned r
CallocReturns(r, c) == Return(r.m, Obtain(live, r.ret, MulWrap(c[1], c[2])))

Calloc(c, oks) ==
    /\ status = "ok"
    /\ Room
    /\ CallocReturns(calloc(M, c[1], c[2], oks), c)

Next ==
    \/ \E oks \in Oracle : MmInit(oks)
    \/ \E n \in MallocSizes, oks \in Oracle : Malloc(n, oks)
    \/ \E p \in (DOMAIN live) \cup {NULL} : Free(p)
    \/ \E p \in (DOMAIN live) \cup {NULL}, n \in ReallocSizes, oks \in Oracle :
          \E smear \in Smears(n) : Realloc(p, n, oks, smear)
    \/ \E c \in CallocArgs, oks \in Oracle : Calloc(c, oks)
    \/ \E p \in DOMAIN live : UserWrite(p)

Spec == Init /\ [][Next]_vars

\* ------------------------------------------------------------------ claims

\* a public call has returned on a heap that a run of mm_init set up
Returned == status = "ok" /\ init_ok

\* C1: starting from a successful init, after every public call that returns
\* the heap checker returns true.
CheckHoldsAfterEveryCall ==
    Returned => mm_checkheap(M)

\* C2: the byte ranges [p1, p1+n1) and [p2, p2+n2) of two distinct live
\* pointers are disjoint.
LiveRangesDisjoint ==
    Returned =>
        \A p1, p2 \in DOMAIN live :
            p1 # p2 => (p1 + live[p1] <= p2 \/ p2 + live[p2] <= p1)

\* C3: every non-null pointer returned by allocate is 16-byte aligned and
\* lies strictly between heap_lo and heap_hi.
ResultsAlignedInHeap ==
    Returned =>
        \A n \in MallocSizes, oks \in Oracle :
            LET r == malloc(M, n, oks)
            IN  (r.m.st = "ok" /\ r.ret # NULL) =>
                    /\ r.ret % dsize = 0
                    /\ mem_heap_lo < r.ret
                    /\ r.ret < mem_heap_hi(r.m)

\* C4: when allocate(n) returns a non-null pointer, the payload capacity of
\* its block, size(block) - 8, is at least n, for wrapping n too.
PayloadCoversRequest ==
    Returned =>
        \A n \in MallocSizes, oks \in Oracle :
            LET r == malloc(M, n, oks)
            IN  (r.m.st = "ok" /\ r.ret # NULL) =>
                    get_payload_size(r.m, payload_to_header(r.ret)) >= n

\* C5: after every public call no two address-adjacent real blocks are both
\* free.
NoTwoAdjacentFree ==
    Returned =>
        LET b == HeapBlocks(M).blocks
        IN  \A i \in 1 .. Len(b) - 1 :
                get_alloc(M, b[i]) \/ get_alloc(M, b[i + 1])

\* C6: after every public call the blocks in the 15 lists are the free blocks
\* of the heap traversal, each once and in the list of its size class.
ListsAreTheFreeBlocks ==
    Returned =>
        LET free_blocks == {b \in SeqSet(HeapBlocks(M).blocks) :
                                ~get_alloc(M, b)}
        IN  \A i \in 0 .. list_length - 1 :
                /\ ListNodes(M, i).ok
                /\ SeqSet(ListNodes(M, i).nodes) =
                       {b \in free_blocks : find_index(get_size(M, b)) = i}

\* C7: after every public call the prev_alloc bit of the word after each real
\* block, the epilogue included, equals the block's alloc bit, and the first
\* real block has prev_alloc = 1.
PrevAllocTracksAlloc ==
    Returned =>
        LET b == HeapBlocks(M).blocks
        IN  /\ \A i \in 1 .. Len(b) :
                   get_prev_alloc(M, find_next(M, b[i])) = get_alloc(M, b[i])
            /\ Len(b) > 0 => get_prev_alloc(M, b[1])

\* C8: after every public call the real blocks tile the heap from heap_start
\* to the epilogue at heap_hi - 7, each of a size that is a multiple of 16 and
\* at least 32; prologue and epilogue have size 0 and alloc = 1.
BlocksTileHeap ==
    Returned =>
        LET w == HeapBlocks(M)
        IN  /\ w.ok
            /\ w.end = mem_heap_hi(M) - 7
            /\ \A b \in SeqSet(w.blocks) :
                   get_size(M, b) % dsize = 0 /\ get_size(M, b) >= min_block_size
            /\ get_size(M, mem_heap_lo) = 0 /\ get_alloc(M, mem_heap_lo)
            /\ get_size(M, w.end) = 0 /\ get_alloc(M, w.end)

\* C9: when reallocate(p, n) of a live p with n > 0 returns non-null q, the
\* first min(n, size(block(p)) - 8) bytes at q are the bytes that were at p,
\* q's block is allocated and p's block is free.
ReallocKeepsBytes ==
    Returned =>
        \A p \in DOMAIN live, n \in ReallocSizes \ {0}, oks \in Oracle :
            \A smear \in Smears(n) :
                LET r == realloc(M, p, n, oks, smear)
                    old == get_payload_size(M, payload_to_header(p))
                    k == IF n < old THEN n ELSE old
                IN  (r.m.st = "ok" /\ r.ret # NULL) =>
                        /\ \A i \in 0 .. (k \div wsize) - 1 :
                               Load(r.m, r.ret + i * wsize) =
                                   Load(M, p + i * wsize)
                        /\ get_alloc(r.m, payload_to_header(r.ret))
                        /\ ~get_alloc(r.m, payload_to_header(p))

\* counts and sizes around the square root, the third, the half and the top
\* of the word range
BoundaryWords ==
    {0, 1, 2, 3, 2 ^ (WordBits \div 2) - 1, 2 ^ (WordBits \div 2),
     2 ^ (WordBits \div 2) + 1, WordMod \div 3, WordMod \div 3 + 1,
     WordMod \div 2 - 1, WordMod \div 2, SIZE_MAX - 1, SIZE_MAX}

\* the mathematical product count * size is at least 2^WordBits
Overflows(count, size) == count # 0 /\ size > SIZE_MAX \div count

AllGranted == [i \in 1 .. 3 |-> TRUE]

\* C10: zero_allocate(count, size) returns null and leaves the heap image,
\* the list heads, the heap bounds and heap_start as they were whenever
\* count = 0 or count * size >= 2^w, and it rejects no other product: on a
\* heap not yet set up, every other call goes on to set it up.
ZeroAllocateRejectsOverflow ==
    status = "ok" =>
        /\ \A c \in CallocArgs, oks \in AllOracles :
               (c[1] = 0 \/ Overflows(c[1], c[2])) =>
                   /\ calloc(M, c[1], c[2], oks).ret = NULL
                   /\ calloc(M, c[1], c[2], oks).m = M
        /\ heap_start = NULL =>
               \A count \in BoundaryWords, size \in BoundaryWords :
                   LET r == calloc(M, count, size, AllGranted)
                   IN  (r.ret = NULL /\ r.m = M) <=>
                           (count = 0 \/ Overflows(count, size))

\* C10: a heap with a live block on which zero_allocate can be called with an
\* overflowing product and returns null
OverflowingZeroAllocate ==
    /\ Returned
    /\ DOMAIN live # {}
    /\ Room
    /\ ncalls < MaxCalls
    /\ \E c \in CallocArgs :
           /\ Overflows(c[1], c[2])
           /\ calloc(M, c[1], c[2], AllGranted).ret = NULL

\* the driver has a call left to make: the states the calls of the state
\* machine are made from
CallsLeft == ncalls < MaxCalls

\* the adjusted size malloc computes for a request of n bytes
AdjustedSize(n) == round_up(Wrap(n + wsize), dsize)

\* malloc(n) on machine m finds no fit and its mem_sbrk request is refused
NoFitNoMemory(m, n, ok) ==
    /\ n # 0
    /\ find_fit(m, AdjustedSize(n)).m.st = "ok"
    /\ find_fit(m, AdjustedSize(n)).ret = NULL
    /\ mem_sbrk(m, round_up(max(AdjustedSize(n), chunksize), dsize), ok).ret
           = SIZE_MAX

\* C11: when allocate(n) finds no fitting free block on an initialised heap
\* and the sbrk request of extend_heap fails, allocate returns null and every
\* heap word (the epilogue included), every list head and the heap bounds are
\* as they were before the call.
FailedExtendLeavesHeap ==
    (status = "ok" /\ heap_start # NULL /\ CallsLeft) =>
        \A n \in MallocSizes, oks \in Oracle :
            NoFitNoMemory(M, n, oks[3]) =>
                /\ malloc(M, n, oks).ret = NULL
                /\ malloc(M, n, oks).m = M

\* C11: a heap set up by mm_init whose only block is handed out, so that a
\* further request finds no fit, asks for memory, is refused and gets null
RefusedExtend ==
    /\ Returned
    /\ CallsLeft
    /\ DOMAIN live # {}
    /\ get_prev_alloc(M, Wrap(mem_brk - wsize))
    /\ \E n \in MallocSizes, oks \in Oracle :
           /\ NoFitNoMemory(M, n, oks[3])
           /\ malloc(M, n, oks).ret = NULL

\* the header word and the payload cells of the block of p are the same in
\* machines m1 and m2
SameBlock(m1, m2, p) ==
    /\ Load(m1, payload_to_header(p)) = Load(m2, payload_to_header(p))
    /\ \A a \in CellsOf(p, get_payload_size(m1, payload_to_header(p))) :
           Load(m1, a) = Load(m2, a)

\* malloc has returned NULL
MallocFailed(mal) == mal.m.st = "ok" /\ mal.ret = NULL

\* realloc(p, n) has returned r: NULL, with the block of p as it was
ReallocRefused(r, p) ==
    /\ r.ret = NULL
    /\ r.m.st = "ok"
    /\ SameBlock(M, r.m, p)

\* C12: when reallocate(p, n) of a live p with n > 0 fails because the inner
\* allocate returns null, reallocate returns null, the block of p keeps its
\* header (allocated, same size) and its payload bytes are unchanged.
FailedReallocKeepsBlock ==
    (status = "ok" /\ CallsLeft) =>
        \A n \in ReallocSizes \ {0}, oks \in Oracle :
            MallocFailed(malloc(M, n, oks)) =>
                \A p \in DOMAIN live, smear \in Smears(n) :
                    ReallocRefused(realloc(M, p, n, oks, smear), p)

\* C12: a live pointer whose block is allocated, and a reallocate of it that
\* returns null because the inner allocate does
RefusedRealloc ==
    /\ Returned
    /\ CallsLeft
    /\ \E p \in DOMAIN live, n \in ReallocSizes \ {0}, oks \in Oracle :
           /\ get_alloc(M, payload_to_header(p))
           /\ get_payload_size(M, payload_to_header(p)) >= live[p]
           /\ malloc(M, n, oks).m.st = "ok"
           /\ malloc(M, n, oks).ret = NULL
           /\ realloc(M, p, n, oks, FALSE).ret = NULL

\* C13: when allocate is called on a heap that is not set up and the lazy
\* mm_init fails (either of its sbrk requests is refused), that call returns
\* null and the allocator stores no word outside the heap, whatever the answer
\* to the sbrk request made afterwards.
FailedLazyInitReturnsNull ==
    (status = "ok" /\ heap_start = NULL) =>
        \A n \in MallocSizes, oks \in AllOracles :
            ~mm_init(M, oks[1], oks[2]).ret =>
                /\ malloc(M, n, oks).m.st # "fault_write"
                /\ malloc(M, n, oks).ret = NULL

\* the real blocks of machine m in address order, each with its size, alloc
\* bit and prev_alloc bit, and the epilogue word
BlockImage(m) ==
    [blocks |-> [i \in 1 .. Len(HeapBlocks(m).blocks) |->
                    <<HeapBlocks(m).blocks[i],
                      get_size(m, HeapBlocks(m).blocks[i]),
                      get_alloc(m, HeapBlocks(m).blocks[i]),
                      get_prev_alloc(m, HeapBlocks(m).blocks[i])>>],
     epilogue |-> <<HeapBlocks(m).end, Load(m, HeapBlocks(m).end)>>]

\* request sizes of the round trip: those of malloc, and those of a block of
\* a quarter and of half a chunk
RoundTripSizes ==
    MallocSizes \cup {chunksize \div 4 - wsize, chunksize \div 2 - wsize}

\* free(p) after malloc has returned r with p = r.ret
freed_again(r) == free(r.m, r.ret)

\* C14: from any reachable state, when p = allocate(n) succeeds without
\* extending the heap and free(p) is called next, the sequence of real blocks
\* (address, size, alloc bit, prev_alloc bit of each, and the epilogue word)
\* is the one before the two calls.
AllocateFreeRoundTrip ==
    Returned =>
        \A n \in RoundTripSizes, oks \in Oracle :
            (/\ malloc(M, n, oks).m.st = "ok"
             /\ malloc(M, n, oks).ret # NULL
             /\ malloc(M, n, oks).m.brk = mem_brk)
                => /\ freed_again(malloc(M, n, oks)).st = "ok"
                   /\ BlockImage(freed_again(malloc(M, n, oks))) = BlockImage(M)

\* C15: in any state reached from init in which every pointer ever returned
\* has been freed, the heap holds exactly one real block: a free block of size
\* heap_hi - heap_lo + 1 - 16 that is the only member of the list of its size
\* class, all other lists being empty.
AllFreedIsOneBlock ==
    (Returned /\ DOMAIN live = {}) =>
        /\ HeapBlocks(M).ok
        /\ HeapBlocks(M).blocks = <<heap_start>>
        /\ ~get_alloc(M, heap_start)
        /\ get_size(M, heap_start) = mem_heap_hi(M) - mem_heap_lo + 1 - dsize
        /\ \A i \in 0 .. list_length - 1 :
               seg_list[i] = IF i = find_index(get_size(M, heap_start))
                             THEN heap_start ELSE NULL
        /\ Load(M, NextField(heap_start)) = NULL

\* C16: every sbrk request the allocator issues has a delta that, read as a
\* signed integer of the word width, is a positive multiple of 16, for every
\* request size passed to allocate, those with round_up(n + 8, 16) >= 2^(w-1)
\* included.
SbrkDeltaPositive ==
    status = "ok" =>
        \A n \in MallocSizes, oks \in Oracle :
            \A delta \in malloc_requests(M, n, oks) :
                Signed(delta) > 0 /\ Signed(delta) % dsize = 0

\* the eleven outcomes of the checks of one run of mm_checkheap
Outcomes(m) ==
    {check_payload_align_outcome(m), acyclic_all_outcome(m),
     check_epi_prologue_outcome(m), check_range_outcome(m),
     check_free_list_consistent_outcome(m),
     check_free_list_size_range_outcome(m),
     check_free_list_pointer_range_outcome(m),
     check_header_footer_consistency_outcome(m),
     check_curr_next_consistency_outcome(m),
     check_no_consecutive_free_blocks_outcome(m),
     check_no_block_loss_outcome(m)}

\* mm_checkheap has ended as r says, its checks as outcomes says: the heap is
\* as it was, the run returned when every check did, and it returned true when
\* every check did
CheckerLeft(r, outcomes) ==
    /\ r.m.mem = mem
    /\ r.m.seg = seg_list
    /\ r.m.hs = heap_start
    /\ r.m.brk = mem_brk
    /\ r.m.st = "ok" <=> outcomes \subseteq {"true", "false"}
    /\ r.ret <=> outcomes = {"true"}

\* C17: mm_checkheap is read-only: on every heap state it is run on, every
\* heap word, every list head, heap_start and the heap bounds are what they
\* were when it returns, whether it returns true or false.
CheckerIsReadOnly ==
    (status = "ok" /\ heap_start # NULL /\ CallsLeft) =>
        CheckerLeft(mm_checkheap_call(M), Outcomes(M))

\* C17: a heap on which mm_checkheap returns false, a list holding a block
\* the heap walk does not meet
CheckerReturnsFalse ==
    /\ Returned
    /\ CallsLeft
    /\ mm_checkheap_call(M).m.st = "ok"
    /\ ~mm_checkheap_call(M).ret
    /\ check_no_block_loss_outcome(M) = "false"

\* C18: reallocate(p, 0) returns null and leaves the heap state of free(p) (a
\* no-op when p is null), and reallocate(null, n) with n > 0 returns the
\* pointer and leaves the heap state of allocate(n).
ReallocDegenerateCases ==
    (status = "ok" /\ CallsLeft) =>
        \A n \in ReallocSizes, oks \in Oracle :
            \A smear \in Smears(n) :
                IF n = 0
                THEN /\ \A p \in (DOMAIN live) \cup {NULL} :
                            realloc(M, p, n, oks, smear) =
                                [m |-> free(M, p), ret |-> NULL]
                     /\ realloc(M, NULL, n, oks, smear).m = M
                ELSE realloc(M, NULL, n, oks, smear) = malloc(M, n, oks)

\* C18: a heap with a live pointer p on which reallocate(p, 0) frees a block
\* and reallocate(null, n) hands out a block
ReallocActsAsFreeAndMalloc ==
    /\ Returned
    /\ CallsLeft
    /\ \E p \in DOMAIN live :
           /\ get_alloc(M, payload_to_header(p))
           /\ realloc(M, p, 0, AllGranted, FALSE).m.st = "ok"
           /\ ~get_alloc(realloc(M, p, 0, AllGranted, FALSE).m,
                         payload_to_header(p))
    /\ \E n \in ReallocSizes \ {0} :
           /\ realloc(M, NULL, n, AllGranted, FALSE).m.st = "ok"
           /\ realloc(M, NULL, n, AllGranted, FALSE).ret # NULL

\* the free blocks the heap walk of machine m meets
FreeBlocks(m) == {b \in SeqSet(HeapBlocks(m).blocks) : ~get_alloc(m, b)}

\* the heap of machine m satisfies the invariants: the checker returns true
\* and each list holds, once each, the free blocks of its size class
HeapInvariants(m) ==
    /\ mm_checkheap(m)
    /\ \A i \in 0 .. list_length - 1 :
           /\ ListNodes(m, i).ok
           /\ SeqSet(ListNodes(m, i).nodes) =
                  {b \in FreeBlocks(m) : find_index(get_size(m, b)) = i}

\* some free block of machine m can hold a block of asize bytes
SomeBlockFits(m, asize) == \E b \in FreeBlocks(m) : get_size(m, b) >= asize

\* find_fit(asize) has returned ff: NULL when no free block can hold asize
\* bytes, a free block that can otherwise
FitRule(ff, asize) ==
    /\ ff.m.st = "ok"
    /\ ff.ret = NULL <=> ~SomeBlockFits(M, asize)
    /\ ff.ret # NULL =>
           /\ ff.ret \in FreeBlocks(M)
           /\ get_size(M, ff.ret) >= asize

\* malloc has returned r, a block of the heap as it was
ServedFromHeap(r) == r.m.brk = mem_brk /\ r.ret # NULL

\* C19: on a heap satisfying the invariants find_fit(asize) returns null if
\* and only if no free block of size >= asize exists, and allocate(n) asks
\* sbrk for memory only then: a request some free block can hold is served
\* from that heap, never by extension.
ExtendsOnlyWhenNothingFits ==
    (Returned /\ CallsLeft /\ HeapInvariants(M)) =>
        \A n \in RoundTripSizes :
            /\ FitRule(find_fit(M, AdjustedSize(n)), AdjustedSize(n))
            /\ \A oks \in Oracle :
                   IF SomeBlockFits(M, AdjustedSize(n))
                   THEN /\ malloc_requests(M, n, oks) = {}
                        /\ ServedFromHeap(malloc(M, n, oks))
                   ELSE malloc_requests(M, n, oks) # {}

\* C19: a heap satisfying the invariants, with a live block and a free block
\* of a higher size class than one request, which is served from it, and too
\* small for another request, which goes to sbrk
FitInHigherClass ==
    /\ Returned
    /\ CallsLeft
    /\ HeapInvariants(M)
    /\ DOMAIN live # {}
    /\ \E n \in RoundTripSizes, b \in FreeBlocks(M) :
           /\ get_size(M, b) >= AdjustedSize(n)
           /\ find_index(get_size(M, b)) > find_index(AdjustedSize(n))
           /\ malloc(M, n, AllGranted).ret = header_to_payload(b)
           /\ malloc(M, n, AllGranted).m.brk = mem_brk
    /\ \E n \in RoundTripSizes :
           /\ ~SomeBlockFits(M, AdjustedSize(n))
           /\ malloc_requests(M, n, AllGranted) # {}

\* the split rule for the block at header b of machine m, cut for asize bytes
\* out of a free block of chosen bytes
SplitRule(m, b, asize, chosen) ==
    /\ get_alloc(m, b)
    /\ asize <= get_size(m, b)
    /\ get_size(m, b) < asize + min_block_size
    /\ chosen - asize >= min_block_size =>
           /\ get_size(m, b) = asize
           /\ ~get_alloc(m, b + asize)
           /\ get_size(m, b + asize) = chosen - asize
           /\ get_prev_alloc(m, b + asize)
           /\ Load(m, b + chosen - wsize) = Load(m, b + asize)
           /\ m.seg[find_index(chosen - asize)] = b + asize
    /\ chosen - asize < min_block_size =>
           /\ get_size(m, b) = chosen
           /\ get_prev_alloc(m, b + chosen)

\* malloc has returned r after choosing the free block ch.ret of machine ch.m
SplitRuleAt(r, ch, asize) ==
    (r.m.st = "ok" /\ r.ret # NULL) =>
        /\ ch.ret = payload_to_header(r.ret)
        /\ SplitRule(r.m, ch.ret, asize, get_size(ch.m, ch.ret))

\* C20: with asize = max(32, round_up(n + 8, 16)) the block of a successful
\* allocate(n) has a size s with asize <= s < asize + 32; when the chosen free
\* block exceeded asize by at least 32 the block has size asize and is
\* followed by a listed free block holding the remainder, otherwise the whole
\* chosen block is allocated and the prev_alloc bit of the block after it is 1.
SplitRuleHolds ==
    (status = "ok" /\ CallsLeft) =>
        \A n \in RoundTripSizes, oks \in Oracle :
            SplitRuleAt(malloc(M, n, oks), malloc_choice(M, n, oks),
                        AdjustedSize(n))

\* C20: a heap with a live block on which one request is cut out of a larger
\* free block and another takes a free block whole
SplitsAndTakesWhole ==
    /\ Returned
    /\ CallsLeft
    /\ DOMAIN live # {}
    /\ \E n \in RoundTripSizes :
           /\ malloc(M, n, AllGranted).ret # NULL
           /\ malloc(M, n, AllGranted).m.st = "ok"
           /\ get_size(malloc_choice(M, n, AllGranted).m,
                       malloc_choice(M, n, AllGranted).ret)
                  >= AdjustedSize(n) + min_block_size
    /\ \E n \in RoundTripSizes :
           /\ malloc(M, n, AllGranted).ret # NULL
           /\ malloc(M, n, AllGranted).m.st = "ok"
           /\ get_size(malloc_choice(M, n, AllGranted).m,
                       malloc_choice(M, n, AllGranted).ret)
                  < AdjustedSize(n) + min_block_size

\* the adjusted sizes find_fit is asked for
FitSizes ==
    {min_block_size, 528, 1008, 1024, 2048, 3072, chunksize}

\* every list of machine m can be walked from its head to a null link, over
\* blocks of the heap
Walkable(m) ==
    \A i \in 0 .. list_length - 1 :
        /\ ListNodes(m, i).ok
        /\ \A b \in SeqSet(ListNodes(m, i).nodes) : InHeap(m, b)

RECURSIVE scan_from(_, _)
\* the blocks of the lists of classes i and above: classes ascending, each
\* list from head to tail
scan_from(m, i) ==
    IF i >= list_length THEN <<>>
    ELSE ListNodes(m, i).nodes \o scan_from(m, i + 1)

\* block b of machine m is free and can hold asize bytes
Fits(m, b, asize) == ~get_alloc(m, b) /\ asize <= get_size(m, b)

\* the first block of the sequence q that fits, NULL when none does
FirstFit(m, q, asize) ==
    IF \E k \in 1 .. Len(q) : Fits(m, q[k], asize)
    THEN q[CHOOSE k \in 1 .. Len(q) :
               /\ Fits(m, q[k], asize)
               /\ \A j \in 1 .. k - 1 : ~Fits(m, q[j], asize)]
    ELSE NULL

\* free(bp) up to the return of coalesce_block: [m, ret], ret the block that
\* add_to_list is about to insert
free_coalesced(m, bp) ==
    coalesce_block(
        update_next_prev_alloc(
            write_block_keep(Touch(m, payload_to_header(bp)),
                             payload_to_header(bp),
                             get_size(m, payload_to_header(bp)), FALSE),
            payload_to_header(bp), FALSE),
        payload_to_header(bp))

\* in machine m, where block b has just been inserted, find_fit(asize)
\* returns b when b fits and no block of a class below b's does
RecentWins(m, b, asize) ==
    (/\ m.st = "ok"
     /\ Fits(m, b, asize)
     /\ find_index(asize) <= find_index(get_size(m, b))
     /\ \A i \in find_index(asize) .. find_index(get_size(m, b)) - 1 :
            \A c \in SeqSet(ListNodes(m, i).nodes) : ~Fits(m, c, asize))
        => find_fit(m, asize).ret = b

Before(q, b) ==
    IF \E k \in 2 .. Len(q) : q[k] = b
    THEN q[(CHOOSE k \in 2 .. Len(q) : q[k] = b) - 1]
    ELSE NULL

After(q, b) ==
    IF \E k \in 1 .. Len(q) - 1 : q[k] = b
    THEN q[(CHOOSE k \in 1 .. Len(q) - 1 : q[k] = b) + 1]
    ELSE NULL

\* b is a free block of machine m, and its size when it is one
FreeAt(m, b) == b # NULL /\ ~get_alloc(m, b)
SizeIfFree(m, b) == IF FreeAt(m, b) THEN get_size(m, b) ELSE 0

\* the neighbours prev and next of a block that coalesce_block merges into it
Merged(m, prev, next) == {n \in {prev, next} : FreeAt(m, n)}

\* coalesce_block(B) has returned co on the heap that was m0 before free
\* marked B free; prev and next are the neighbours of B in m0
CoalesceRule(m0, co, B, prev, next) ==
    /\ co.m.st = "ok"
    /\ co.ret = IF FreeAt(m0, prev) THEN prev ELSE B
    /\ ~get_alloc(co.m, co.ret)
    /\ get_size(co.m, co.ret) =
           get_size(m0, B) + SizeIfFree(m0, prev) + SizeIfFree(m0, next)
    /\ Load(co.m, header_to_footer(co.m, co.ret)) = Load(co.m, co.ret)
    /\ get_prev_alloc(co.m, co.ret) = get_prev_alloc(m0, co.ret)
    /\ ~get_prev_alloc(co.m, find_next(co.m, co.ret))
    /\ \A i \in 0 .. list_length - 1 :
           /\ ListNodes(co.m, i).ok
           /\ SeqSet(ListNodes(co.m, i).nodes) =
                  SeqSet(ListNodes(m0, i).nodes) \ Merged(m0, prev, next)

\* C22: coalesce(B), called on a just-freed block B not yet in any list,
\* returns a free block that starts at the previous block if that block was
\* free and otherwise at B, whose size is size(B) plus the sizes of exactly
\* the adjacent neighbours that were free; each merged neighbour is removed
\* from its list, the result keeps the prev_alloc bit of its lowest
\* constituent, and the block after the result has prev_alloc = 0.
CoalesceMergesFreeNeighbours ==
    (Returned /\ HeapInvariants(M)) =>
        \A p \in DOMAIN live :
            CoalesceRule(M, free_coalesced(M, p), payload_to_header(p),
                         Before(HeapBlocks(M).blocks, payload_to_header(p)),
                         After(HeapBlocks(M).blocks, payload_to_header(p)))

\* C22: a heap satisfying the invariants with a live block between two free
\* blocks, which coalesce_block merges into one block starting at the lower
BothNeighboursMerged ==
    /\ Returned
    /\ HeapInvariants(M)
    /\ \E p \in DOMAIN live :
           /\ FreeAt(M, Before(HeapBlocks(M).blocks, payload_to_header(p)))
           /\ FreeAt(M, After(HeapBlocks(M).blocks, payload_to_header(p)))
           /\ free_coalesced(M, p).ret =
                  Before(HeapBlocks(M).blocks, payload_to_header(p))
           /\ get_size(free_coalesced(M, p).m, free_coalesced(M, p).ret)
                  > get_size(M, payload_to_header(p))

\* the sizes extend_heap is called with
ExtendSizes == {100, chunksize - 6, chunksize, 2 * chunksize}

\* the last block of the heap walk q of machine m, NULL when it has none
LastBlock(q) == IF Len(q) = 0 THEN NULL ELSE q[Len(q)]

\* the size of the free block the heap of machine m ends with, 0 when the
\* last block is allocated or the heap has no block
Trailing(m) == SizeIfFree(m, LastBlock(HeapBlocks(m).blocks))

\* the heap of mm_init at its call of extend_heap, mem_sbrk having returned sb
EmptyHeap(sb) == init_heap(sb.m, sb.ret)

\* extend_heap has returned ext on machine m0, whose heap ended with a free
\* block of trailing bytes; size is the rounded request
ExtendRule(m0, ext, size, trailing) ==
    ext.ret # NULL =>
        /\ ext.m.st = "ok"
        /\ ext.m.brk = m0.brk + size
        /\ Load(ext.m, m0.brk - wsize) =
               pack(size, FALSE, get_prev_alloc(m0, m0.brk - wsize))
        /\ Load(ext.m, mem_heap_hi(ext.m) - 7) = pack(0, TRUE, FALSE)
        /\ HeapBlocks(ext.m).ok
        /\ LastBlock(HeapBlocks(ext.m).blocks) = ext.ret
        /\ ext.ret = IF trailing > 0 THEN LastBlock(HeapBlocks(m0).blocks)
                     ELSE m0.brk - wsize
        /\ ~get_alloc(ext.m, ext.ret)
        /\ get_size(ext.m, ext.ret) = size + trailing
        /\ ext.m.seg[find_index(size + trailing)] = ext.ret

\* C23: after a successful extend_heap(n), the new block's header overlays
\* the old epilogue and takes its prev_alloc bit, a fresh epilogue sits at
\* heap_hi - 7, and the last real block is free, in its class list, with size
\* equal to n rounded up to a multiple of 16 plus the size of the trailing
\* free block that existed before the call (0 if the last block was
\* allocated or the heap had no blocks).
ExtendAddsTrailingBlock ==
    (status = "ok" /\ CallsLeft) =>
        /\ heap_start = NULL =>
               \A n \in ExtendSizes :
                   ExtendRule(EmptyHeap(mem_sbrk(M, 2 * wsize, TRUE)),
                              extend_heap(
                                  EmptyHeap(mem_sbrk(M, 2 * wsize, TRUE)),
                                  n, TRUE),
                              round_up(n, dsize), 0)
        /\ (Returned /\ HeapInvariants(M)) =>
               \A n \in ExtendSizes :
                   ExtendRule(M, extend_heap(M, n, TRUE),
                              round_up(n, dsize), Trailing(M))

\* C23: a heap satisfying the invariants that ends with a free block and a
\* live block before it, which extend_heap grows by a chunk
ExtendedTrailingBlock ==
    /\ Returned
    /\ CallsLeft
    /\ HeapInvariants(M)
    /\ DOMAIN live # {}
    /\ Trailing(M) > 0
    /\ extend_heap(M, chunksize, TRUE).ret # NULL
    /\ get_size(extend_heap(M, chunksize, TRUE).m,
                extend_heap(M, chunksize, TRUE).ret) = chunksize + Trailing(M)

\* a list pointer of machine m is null or strictly inside
\* (heap_lo, heap_hi - 7)
LinkInside(m, ptr) ==
    ptr = NULL \/ (mem_heap_lo < ptr /\ ptr < mem_heap_hi(m) - 7)

\* list i of machine m is a well-formed doubly linked list
WellFormedList(m, i) ==
    /\ ListNodes(m, i).ok
    /\ LinkInside(m, m.seg[i])
    /\ m.seg[i] # NULL => Load(m, PrevField(m.seg[i])) = NULL
    /\ \A b \in SeqSet(ListNodes(m, i).nodes) :
           /\ LinkInside(m, Load(m, NextField(b)))
           /\ LinkInside(m, Load(m, PrevField(b)))
           /\ Load(m, NextField(b)) # NULL =>
                  Load(m, PrevField(Load(m, NextField(b)))) = b

\* C24: after every public call, each of the 15 segregated lists is a
\* well-formed doubly linked list: it is acyclic, its head has prev = null,
\* B.next.prev = B for every node with a successor, and every head, next and
\* prev pointer that is non-null lies strictly inside (heap_lo, heap_hi - 7).
ListsWellFormed ==
    Returned => \A i \in 0 .. list_length - 1 : WellFormedList(M, i)

\* bits 2 and 3 of a header, footer, prologue or epilogue word are zero
ReservedBitsZero(word) == ~Bit(word, 4) /\ ~Bit(word, 8)

\* the boundary words of block b of machine m: bits 2 and 3 are zero in its
\* header, and a free block ends with a footer equal to its header
BoundaryTagsAgree(m, b) ==
    /\ ReservedBitsZero(Load(m, b))
    /\ ~get_alloc(m, b) =>
           Load(m, header_to_footer(m, b)) = Load(m, b)

\* C25: after every public call, every free block's footer word (its last 8
\* bytes) equals its header word, and bits 2 and 3 of every header, footer,
\* prologue and epilogue word are zero.
FootersMatchHeaders ==
    Returned =>
        /\ \A b \in SeqSet(HeapBlocks(M).blocks) : BoundaryTagsAgree(M, b)
        /\ ReservedBitsZero(Load(M, mem_heap_lo))
        /\ ReservedBitsZero(Load(M, mem_heap_hi(M) - 7))

\* the heap image of machine m with the prev_alloc bit of the word at a
\* inverted
PrevAllocFlipped(m, a) ==
    Store(m, a, pack(extract_size(Load(m, a)), extract_alloc(Load(m, a)),
                     ~extract_prev_alloc(Load(m, a))))

\* some block of the heap walk of machine m has an alloc bit that differs
\* from the prev_alloc bit of the word after it, the epilogue included
PrevAllocMismatch(m) ==
    \E b \in SeqSet(HeapBlocks(m).blocks) :
        get_alloc(m, b) # get_prev_alloc(m, find_next(m, b))

\* mm_checkheap returns false on the heap image m
CheckerRejects(r) == r.m.st = "ok" /\ ~r.ret

\* C26: check(line) returns false on every heap image in which some real
\* block B has alloc(B) # prev_alloc(next(B)), for every real block B
\* including the last one, whose next word is the epilogue.
CheckerSeesPrevAllocMismatch ==
    (Returned /\ HeapInvariants(M)) =>
        \A b \in SeqSet(HeapBlocks(M).blocks) :
            PrevAllocMismatch(PrevAllocFlipped(M, find_next(M, b))) =>
                CheckerRejects(
                    mm_checkheap_call(PrevAllocFlipped(M, find_next(M, b))))

\* the heap image of machine m with the next link of block b pointing at b:
\* the list b is in has a cycle
SelfLinked(m, b) == Store(m, NextField(b), b)

\* C27: check(line) terminates on every heap image and, when some segregated
\* list contains a cycle reachable from its head, it returns false; the
\* later list-walking predicates (link consistency, size range, pointer
\* range, free-block count) also finish on such a heap.
CheckerEndsOnCycles ==
    (Returned /\ HeapInvariants(M)) =>
        \A i \in 0 .. list_length - 1 :
            M.seg[i] # NULL =>
                CheckerRejects(mm_checkheap_call(SelfLinked(M, M.seg[i])))

\* the answers to the sbrk request of a call on a heap that is set up
LaterOracles == {o \in AllOracles : o[1] /\ o[2]}

\* allocate(n) is called again on machine m, where p has just been freed: it
\* returns p and asks sbrk for nothing
SamePointerAgain(m, p, n) ==
    /\ m.st = "ok"
    /\ \A oks \in LaterOracles :
           /\ malloc_requests(m, n, oks) = {}
           /\ malloc(m, n, oks).m.st = "ok"
           /\ malloc(m, n, oks).ret = p

\* allocate(n) has returned r: when it succeeded, free(p) and a second
\* allocate(n) give p back
RoundTripAt(r, n) ==
    (r.m.st = "ok" /\ r.ret # NULL) =>
        SamePointerAgain(freed_again(r), r.ret, n)

\* C28: from any reachable state, if p = allocate(n) succeeds, free(p)
\* follows immediately, and allocate(n) is called again, the second allocate
\* returns the same pointer p and issues no sbrk request, whether or not the
\* first allocate extended the heap.
AllocateAgainSamePointer ==
    status = "ok" =>
        \A n \in RoundTripSizes, oks \in Oracle :
            RoundTripAt(malloc(M, n, oks), n)


\* the byte at address a lies in the payload [B + 8, B + size(B)) of the
\* block B that payload pointer p belongs to
InPayload(m, p, a) ==
    p <= a /\ a < p + get_payload_size(m, payload_to_header(p))

\* the words whose content a call that took m0 to m1 has changed
Rewritten(m0, m1) ==
    {a \in (DOMAIN m0.mem) \cup (DOMAIN m1.mem) : Load(m0, a) # Load(m1, a)}

\* a call that returned with machine m1 changed no word in the payload of a
\* block of kept, the caller's blocks that are allocated before and after it
KeepsPayloads(m0, m1, kept) ==
    m1.st = "ok" =>
        \A a \in Rewritten(m0, m1), p \in kept : ~InPayload(m0, p, a)

\* the caller's blocks that realloc(p, n) returning r leaves allocated
KeptByRealloc(r, p, n) ==
    IF n # 0 /\ r.ret = NULL THEN DOMAIN live ELSE (DOMAIN live) \ {p}

ReallocKeepsPayloads(r, p, n) == KeepsPayloads(M, r.m, KeptByRealloc(r, p, n))

\* C29: during any malloc, free, realloc or calloc call, no write of the
\* allocator lands in the payload [B + 8, B + size(B)) of a block B that is
\* allocated and stays allocated across the call; calloc and realloc write
\* only into the payload of the block they return.
LivePayloadsUntouched ==
    Returned =>
        /\ \A n \in MallocSizes, oks \in Oracle :
               KeepsPayloads(M, malloc(M, n, oks).m, DOMAIN live)
        /\ \A p \in DOMAIN live :
               KeepsPayloads(M, free(M, p), (DOMAIN live) \ {p})
        /\ \A p \in (DOMAIN live) \cup {NULL}, n \in ReallocSizes,
              oks \in Oracle :
               \A smear \in Smears(n) :
                   ReallocKeepsPayloads(realloc(M, p, n, oks, smear), p, n)
        /\ \A c \in CallocArgs, oks \in Oracle :
               KeepsPayloads(M, calloc(M, c[1], c[2], oks).m, DOMAIN live)


\* the bytes [a, a + get_size) of the block of payload pointer p in m
BlockLo(p) == payload_to_header(p)
BlockHi(m, p) == payload_to_header(p) + get_size(m, payload_to_header(p))

\* realloc(p, n) that returned r from machine m0 has moved the data: the
\* block of r.ret shares no byte with the block p had when the call was made
MovedAway(m0, r, p) ==
    (r.m.st = "ok" /\ r.ret # NULL) =>
        /\ r.ret # p
        /\ \/ BlockHi(r.m, r.ret) <= BlockLo(p)
           \/ BlockHi(m0, p) <= BlockLo(r.ret)

\* C30: realloc(p, n) with p live and n > 0 never resizes in place: when it
\* returns a non-null q, q # p and the block of q does not overlap the block
\* p had at call time, also when n fits the old payload.
ReallocNeverInPlace ==
    Returned =>
        \A p \in DOMAIN live, n \in ReallocSizes \ {0}, oks \in Oracle :
            \A smear \in Smears(n) :
                MovedAway(M, realloc(M, p, n, oks, smear), p)

=============================================================================
